---- MODULE Spec2Model ----
(***************************************************************************)
(* Model of the source discovery and recommendation pipeline:              *)
(*   src/db.py       DiscoveryDB        (the Store)                        *)
(*   src/scoring.py  RelevanceScorer, RecommendationEngine                 *)
(*   src/monitor.py  AIDiscoveryMonitor (the coordinator, run_once)        *)
(*                                                                         *)
(* Scores are floats in the source.  They are modelled as integers in      *)
(* units of 1/One (One = 1.0), so 0.3 is 18, 0.5 is 30 and 0.7 is 42.      *)
(* Time is counted in whole days.                                          *)
(***************************************************************************)
EXTENDS Integers, Sequences, FiniteSets, TLC

----------------------------------------------------------------------------
(* Bounds of the model *)

MaxSources == 2        \* rows of discovered_sources
MaxCitations == 2      \* rows of citations
MaxRecs == 2           \* recommendations rows written by direct mark calls
MaxCandidates == 2     \* candidates returned by one discover_sources call
MaxTicks == 1          \* advances of the clock
DayStep == 91          \* days per advance of the clock
MaxTerms == 2          \* terms of a vocabulary given to the scorer directly
MaxEngineCitations == 3 \* citation_count of a source given to should_recommend
MaxRankList == 3       \* sources in a list given to rank_sources directly
MaxBlogs == 2          \* configured primary blogs
MaxAccounts == 2       \* configured primary Twitter accounts
MaxFound == 1          \* candidates found in one primary source
MaxPrimaries == 2      \* rows of primary_sources
TweetAgeDays == 1       \* days between a tweet and the pass that reads it

----------------------------------------------------------------------------
(* Program constants *)

One == 60                      \* the score 1.0
NoMatchScore == 18             \* the score 0.3
DefaultMinRelevance == 42      \* min_relevance = 0.7
DefaultCitationThreshold == 2  \* citation_threshold = 2
DefaultMaxAgeDays == 90        \* max_age_days = 90
CitationNorm == 10             \* citation_count / 10 in the strength

----------------------------------------------------------------------------
(* Text: a string is a sequence of one-character strings *)

LowerChar(c) ==
    CASE c = "A" -> "a" [] c = "B" -> "b" [] c = "C" -> "c" [] c = "D" -> "d"
      [] c = "E" -> "e" [] c = "F" -> "f" [] c = "G" -> "g" [] c = "H" -> "h"
      [] c = "I" -> "i" [] c = "J" -> "j" [] c = "K" -> "k" [] c = "L" -> "l"
      [] c = "M" -> "m" [] c = "N" -> "n" [] c = "O" -> "o" [] c = "P" -> "p"
      [] c = "Q" -> "q" [] c = "R" -> "r" [] c = "S" -> "s" [] c = "T" -> "t"
      [] c = "U" -> "u" [] c = "V" -> "v" [] c = "W" -> "w" [] c = "X" -> "x"
      [] c = "Y" -> "y" [] c = "Z" -> "z" [] OTHER -> c

Lower(s) == [i \in DOMAIN s |-> LowerChar(s[i])]

\* Python's  t in s  on strings
IsSubstring(t, s) ==
    \E i \in 0..(Len(s) - Len(t)) : SubSeq(s, i + 1, i + Len(t)) = t

AISafetyWeekly ==
    <<"A","I"," ","S","a","f","e","t","y"," ","W","e","e","k","l","y">>
CookingBlog == <<"C","o","o","k","i","n","g"," ","B","l","o","g">>
SafetyAgents == <<"S","a","f","e","t","y"," ","A","g","e","n","t","s">>

Names == {AISafetyWeekly, CookingBlog, SafetyAgents}

Agents == <<"a","g","e","n","t","s">>
Safety == <<"S","a","f","e","t","y">>
Cooking == <<"c","o","o","k","i","n","g">>

\* the interests a scorer can be constructed on
Terms == {Agents, Safety, Cooking}

\* recommendation_thresholds absent from the configuration: the defaults
DefaultThresholds ==
    [min_relevance_score |-> DefaultMinRelevance,
     min_citation_count |-> DefaultCitationThreshold,
     max_source_age_days |-> DefaultMaxAgeDays]

\* a configuration with its own thresholds: 0.3, 1 citation, 120 days
LenientThresholds ==
    [min_relevance_score |-> NoMatchScore,
     min_citation_count |-> 1,
     max_source_age_days |-> 120]

Configs ==
    { [interests |-> <<Agents, Safety>>, thresholds |-> DefaultThresholds],
      [interests |-> <<Safety>>, thresholds |-> DefaultThresholds],
      [interests |-> <<>>, thresholds |-> LenientThresholds] }

----------------------------------------------------------------------------
(* Scorer *)

Min(a, b) == IF a < b THEN a ELSE b
Max(a, b) == IF a > b THEN a ELSE b

\* RelevanceScorer.__init__ lowercases the interests
ScorerInterests(interests) == [k \in DOMAIN interests |-> Lower(interests[k])]

\* a plausible slip: any matching term gives the full score
score_name_any_match(interests, name) ==
    IF name = <<>> THEN 0
    ELSE LET name_lower == Lower(name)
             matched_interests ==
                 Cardinality({k \in DOMAIN interests :
                                 IsSubstring(interests[k], name_lower)})
         IN IF matched_interests > 0 THEN One ELSE NoMatchScore

\* RelevanceScorer.score_name, on the scorer's (lowercased) interests
score_name(interests, name) ==
    IF name = <<>> THEN 0
    ELSE LET name_lower == Lower(name)
             matched_interests ==
                 Cardinality({k \in DOMAIN interests :
                                 IsSubstring(interests[k], name_lower)})
         IN IF matched_interests > 0
            THEN Min(One, (matched_interests * One) \div Len(interests))
            ELSE NoMatchScore

----------------------------------------------------------------------------
(* Store: the tables of DiscoveryDB.  A table is the sequence of its rows  *)
(* in rowid order; no row is ever deleted, so a row's id is its position.  *)

\* SQL NULL
Null == "NULL"

\* a primary_sources row built by add_primary_source's INSERT; last_checked
\* is not among the inserted columns
NewPrimaryRow(rows, p) ==
    [id |-> Len(rows) + 1,
     name |-> p.name,
     url |-> p.url,
     source_type |-> p.source_type,
     handle |-> p.handle,
     last_checked |-> Null]

\* a plausible slip: INSERT OR REPLACE semantics, the later fields win
InsertOrReplacePrimary(rows, p) ==
    IF \E i \in DOMAIN rows : rows[i].name = p.name
    THEN [i \in DOMAIN rows |->
             IF rows[i].name = p.name
             THEN [rows[i] EXCEPT !.url = p.url, !.source_type = p.source_type,
                                  !.handle = p.handle]
             ELSE rows[i]]
    ELSE Append(rows, NewPrimaryRow(rows, p))

\* add_primary_source: INSERT OR IGNORE on the UNIQUE name
InsertOrIgnorePrimary(rows, p) ==
    IF \E i \in DOMAIN rows : rows[i].name = p.name
    THEN rows
    ELSE Append(rows, NewPrimaryRow(rows, p))

\* the primary_sources section of the configuration file: one blog, the
\* same in every configuration of the model
ConfiguredPrimarySources ==
    <<[name |-> "Primary Blog", url |-> "https://blog.example/feed",
       source_type |-> "blog", handle |-> Null]>>

\* _init_primary_sources: add_primary_source for each configured source
init_primary_sources(rows) ==
    LET f[n \in 0..Len(ConfiguredPrimarySources)] ==
            IF n = 0 THEN rows
            ELSE InsertOrIgnorePrimary(f[n - 1], ConfiguredPrimarySources[n])
    IN f[Len(ConfiguredPrimarySources)]

\* the last_active a candidate found in a tweet carries: the tweet's
\* created_at, some days before the pass that finds it
candidate_last_active(name, t) ==
    [present |-> TRUE, parses |-> TRUE, day |-> t - TweetAgeDays]

\* a plausible slip: the row stores the candidate's own last_active
NewDiscoveredRowFromCandidate(rows, name, relevance_score, t) ==
    [id |-> Len(rows) + 1,
     name |-> name,
     relevance_score |-> relevance_score,
     citation_count |-> 0,
     last_active |-> candidate_last_active(name, t),
     recommendation_sent |-> FALSE]

\* a discovered_sources row built by add_discovered_source's INSERT
NewDiscoveredRow(rows, name, relevance_score, t) ==
    [id |-> Len(rows) + 1,
     name |-> name,
     relevance_score |-> relevance_score,
     citation_count |-> 0,
     last_active |-> [present |-> TRUE, parses |-> TRUE, day |-> t],
     recommendation_sent |-> FALSE]

HasName(rows, name) == \E i \in DOMAIN rows : rows[i].name = name

\* SELECT ... WHERE name = ?  (get_source_by_name, and the id lookup of add_*)
RowByName(rows, name) == rows[CHOOSE i \in DOMAIN rows : rows[i].name = name]

\* a plausible slip: INSERT OR REPLACE semantics, the row is reset in place
InsertOrReplaceDiscovered(rows, name, relevance_score, t) ==
    IF HasName(rows, name)
    THEN [i \in DOMAIN rows |->
            IF rows[i].name = name
            THEN [NewDiscoveredRow(rows, name, relevance_score, t)
                     EXCEPT !.id = rows[i].id]
            ELSE rows[i]]
    ELSE Append(rows, NewDiscoveredRow(rows, name, relevance_score, t))

\* a plausible slip: an upsert that overwrites the stored score
InsertOrUpdateScore(rows, name, relevance_score, t) ==
    IF HasName(rows, name)
    THEN [i \in DOMAIN rows |->
            IF rows[i].name = name
            THEN [rows[i] EXCEPT !.relevance_score = relevance_score]
            ELSE rows[i]]
    ELSE Append(rows, NewDiscoveredRow(rows, name, relevance_score, t))

\* a plausible slip: a plain INSERT with no UNIQUE conflict handling
InsertAlways(rows, name, relevance_score, t) ==
    Append(rows, NewDiscoveredRow(rows, name, relevance_score, t))

\* add_discovered_source: INSERT OR IGNORE INTO discovered_sources
InsertOrIgnoreDiscovered(rows, name, relevance_score, t) ==
    IF HasName(rows, name)
    THEN rows
    ELSE Append(rows, NewDiscoveredRow(rows, name, relevance_score, t))

\* SELECT COUNT(*) FROM citations WHERE discovered_source_id = ?
CountCitations(cits, discovered_source_id) ==
    Cardinality({k \in DOMAIN cits :
                    cits[k].discovered_source_id = discovered_source_id})

\* record_citation: the INSERT INTO citations
InsertCitation(cits, primary_source_id, discovered_source_id) ==
    Append(cits, [primary_source_id |-> primary_source_id,
                  discovered_source_id |-> discovered_source_id])

\* record_citation: the UPDATE of citation_count, run after the INSERT
UpdateCitationCount(rows, cits, discovered_source_id) ==
    [i \in DOMAIN rows |->
        IF rows[i].id = discovered_source_id
        THEN [rows[i] EXCEPT
                 !.citation_count = CountCitations(cits, discovered_source_id)]
        ELSE rows[i]]

\* a plausible slip: the flag is not part of the UPDATE
MarkSentRowsNoFlag(rows, source_id) == rows

\* mark_recommendation_sent: UPDATE discovered_sources SET recommendation_sent = 1
MarkSentRows(rows, source_id) ==
    [i \in DOMAIN rows |->
        IF rows[i].id = source_id
        THEN [rows[i] EXCEPT !.recommendation_sent = TRUE]
        ELSE rows[i]]

\* a plausible slip: a source gets a record only the first time it is marked
InsertRecommendationOnce(recs, rows, source_id) ==
    IF /\ \E i \in DOMAIN rows : rows[i].id = source_id
       /\ ~\E j \in DOMAIN recs : recs[j].source_id = source_id
    THEN Append(recs,
                [source_id |-> source_id,
                 relevance_score |->
                     rows[CHOOSE i \in DOMAIN rows : rows[i].id = source_id]
                         .relevance_score])
    ELSE recs

\* mark_recommendation_sent: INSERT INTO recommendations SELECT ... WHERE id = ?
\* (one record per row with that id: none when the id is not in the table)
InsertRecommendation(recs, rows, source_id) ==
    IF \E i \in DOMAIN rows : rows[i].id = source_id
    THEN Append(recs,
                [source_id |-> source_id,
                 relevance_score |->
                     rows[CHOOSE i \in DOMAIN rows : rows[i].id = source_id]
                         .relevance_score])
    ELSE recs

\* Stable sort.  precedes[i][j] tells whether seq[i] sorts strictly before
\* seq[j]; order is a sequence of indices of seq, and n is placed after every
\* index it does not strictly precede
InsertStable(order, n, precedes) ==
    LET k == Cardinality({i \in DOMAIN order : ~precedes[n][order[i]]})
    IN SubSeq(order, 1, k) \o <<n>> \o SubSeq(order, k + 1, Len(order))

StableSort(seq, precedes) ==
    LET f[n \in 0..Len(seq)] ==
            IF n = 0 THEN <<>> ELSE InsertStable(f[n - 1], n, precedes)
    IN [i \in DOMAIN seq |-> seq[f[Len(seq)][i]]]

\* ORDER BY relevance_score DESC, citation_count DESC
SqlPrecedes(a, b) ==
    \/ a.relevance_score > b.relevance_score
    \/ /\ a.relevance_score = b.relevance_score
       /\ a.citation_count > b.citation_count

\* a plausible slip: strict comparisons in the WHERE clause
EligibleStrict(r, min_relevance, citation_threshold) ==
    /\ r.relevance_score > min_relevance
    /\ r.citation_count > citation_threshold
    /\ ~r.recommendation_sent

\* get_recommended_sources: the WHERE clause
Eligible(r, min_relevance, citation_threshold) ==
    /\ r.relevance_score >= min_relevance
    /\ r.citation_count >= citation_threshold
    /\ ~r.recommendation_sent

\* get_recommended_sources: rows are scanned in rowid order and sorted; rows
\* equal on both keys come out in scan order
get_recommended_sources(rows, min_relevance, citation_threshold) ==
    LET Test(r) == Eligible(r, min_relevance, citation_threshold)
        selected == SelectSeq(rows, Test)
    IN StableSort(selected,
                  [i \in DOMAIN selected |->
                      [j \in DOMAIN selected |->
                          SqlPrecedes(selected[i], selected[j])]])

----------------------------------------------------------------------------
(* Recommendation engine *)

\* a plausible slip: the citation check made before the relevance check
should_recommend_citations_first(source, min_relevance, citation_threshold, max_age_days, today) ==
    LET relevance_score == source.relevance_score
        citation_count == source.citation_count
        last_active == source.last_active
        age_days == today - last_active.day
        dated == last_active.present /\ last_active.parses
    IN IF citation_count < citation_threshold
       THEN [accept |-> FALSE,
             reason |-> [text |-> "Not enough citations",
                         a |-> citation_count, b |-> citation_threshold]]
       ELSE IF relevance_score < min_relevance
       THEN [accept |-> FALSE,
             reason |-> [text |-> "Relevance score too low",
                         a |-> relevance_score, b |-> min_relevance]]
       ELSE IF dated /\ age_days > max_age_days
       THEN [accept |-> FALSE,
             reason |-> [text |-> "Source inactive for too long",
                         a |-> age_days, b |-> max_age_days]]
       ELSE [accept |-> TRUE,
             reason |-> [text |-> IF dated
                                  THEN "Good relevance | Cited | Actively posting"
                                  ELSE "Good relevance | Cited",
                         a |-> relevance_score, b |-> citation_count]]

\* a plausible slip: a last_active that does not parse counts as too old
should_recommend_unparsed_is_old(source, min_relevance, citation_threshold, max_age_days, today) ==
    LET relevance_score == source.relevance_score
        citation_count == source.citation_count
        last_active == source.last_active
        age_days == today - last_active.day
        dated == last_active.present /\ last_active.parses
    IN IF relevance_score < min_relevance
       THEN [accept |-> FALSE,
             reason |-> [text |-> "Relevance score too low",
                         a |-> relevance_score, b |-> min_relevance]]
       ELSE IF citation_count < citation_threshold
       THEN [accept |-> FALSE,
             reason |-> [text |-> "Not enough citations",
                         a |-> citation_count, b |-> citation_threshold]]
       ELSE IF last_active.present /\ (~last_active.parses \/ age_days > max_age_days)
       THEN [accept |-> FALSE,
             reason |-> [text |-> "Source inactive for too long",
                         a |-> age_days, b |-> max_age_days]]
       ELSE [accept |-> TRUE,
             reason |-> [text |-> IF dated
                                  THEN "Good relevance | Cited | Actively posting"
                                  ELSE "Good relevance | Cited",
                         a |-> relevance_score, b |-> citation_count]]

\* should_recommend: (accept, reason); the reason keeps the numbers the
\* source formats into its text
should_recommend(source, min_relevance, citation_threshold, max_age_days, today) ==
    LET relevance_score == source.relevance_score
        citation_count == source.citation_count
        last_active == source.last_active
        age_days == today - last_active.day
        dated == last_active.present /\ last_active.parses
    IN IF relevance_score < min_relevance
       THEN [accept |-> FALSE,
             reason |-> [text |-> "Relevance score too low",
                         a |-> relevance_score, b |-> min_relevance]]
       ELSE IF citation_count < citation_threshold
       THEN [accept |-> FALSE,
             reason |-> [text |-> "Not enough citations",
                         a |-> citation_count, b |-> citation_threshold]]
       ELSE IF dated /\ age_days > max_age_days
       THEN [accept |-> FALSE,
             reason |-> [text |-> "Source inactive for too long",
                         a |-> age_days, b |-> max_age_days]]
       ELSE [accept |-> TRUE,
             reason |-> [text |-> IF dated
                                  THEN "Good relevance | Cited | Actively posting"
                                  ELSE "Good relevance | Cited",
                         a |-> relevance_score, b |-> citation_count]]

\* rank_sources: strength = 0.5 * relevance_score + 0.5 * (citation_count / 10),
\* here multiplied by 2 * CitationNorm * One
Strength(source) ==
    source.relevance_score * CitationNorm + source.citation_count * One

\* a plausible slip: a sort that also moves an element before its equals
StrengthPrecedesOrTies(x, y) == x.strength >= y.strength

\* recommendations.sort(key=strength, reverse=True): stable
StrengthPrecedes(x, y) == x.strength > y.strength

\* rank_sources calls should_recommend(source): the default thresholds
RankDecision(source, today) ==
    should_recommend(source, DefaultMinRelevance, DefaultCitationThreshold,
                     DefaultMaxAgeDays, today)

\* rank_sources: a sequence of (source, reasoning)
rank_sources(sources, today) ==
    LET Accepted(src) == RankDecision(src, today).accept
        kept == SelectSeq(sources, Accepted)
        triples == [i \in DOMAIN kept |->
                       [source |-> kept[i],
                        reasoning |-> RankDecision(kept[i], today).reason,
                        strength |-> Strength(kept[i])]]
        sorted == StableSort(triples,
                             [i \in DOMAIN triples |->
                                 [j \in DOMAIN triples |->
                                     StrengthPrecedes(triples[i], triples[j])]])
    IN [i \in DOMAIN sorted |->
           [source |-> sorted[i].source, reasoning |-> sorted[i].reasoning]]

----------------------------------------------------------------------------
(* State *)

VARIABLES
    primary_sources,     \* table primary_sources
    discovered_sources,  \* table discovered_sources
    citations,           \* table citations
    recommendations,     \* table recommendations
    config,              \* AIDiscoveryMonitor.config (interests, thresholds)
    now,                 \* datetime.now(), in days
    pc,                  \* position of run_once
    discovered,          \* discover_and_score: the list from discover_sources
    idx,                 \* discover_and_score: index of the candidate in turn
    ranked,              \* run_once: the list returned by discover_and_score
    markIdx,             \* run_once: index of the next source to mark
    notifyCount,         \* per source id: passes that handed it to notify
    other,               \* a second run_once on the same database: its
                         \* position and its local lists
    lastCall             \* the last call of an operation, when it was the
                         \* last step taken: its arguments and its outcome

vars == <<primary_sources, discovered_sources, citations, recommendations, config, now, pc,
          discovered, idx, ranked, markIdx, notifyCount, other, lastCall>>

storeVars == <<primary_sources, discovered_sources, citations, recommendations>>
passVars == <<pc, discovered, idx, ranked, markIdx, other>>

SourceIds == 1..MaxSources
PrimaryIds == {1}
ScoreInputs == {NoMatchScore, DefaultMinRelevance}
RelevanceArgs == {NoMatchScore, DefaultMinRelevance}
CitationArgs == {0, DefaultCitationThreshold}

\* sequences over S of length 0..n
SeqsUpTo(S, n) == UNION {[1..k -> S] : k \in 0..n}

NoCall == [op |-> "none"]

\* the second run_once is not running
NotRunning ==
    [pc |-> "idle", discovered |-> <<>>, idx |-> 1, ranked |-> <<>>, markIdx |-> 1]

\* no pass is running and no call is in progress
Idle == pc = "idle" /\ lastCall = NoCall

Init ==
    /\ primary_sources = init_primary_sources(<<>>)
    /\ discovered_sources = <<>>
    /\ citations = <<>>
    /\ recommendations = <<>>
    /\ config \in Configs
    /\ now = 0
    /\ Idle
    /\ discovered = <<>>
    /\ idx = 1
    /\ ranked = <<>>
    /\ markIdx = 1
    /\ notifyCount = [i \in SourceIds |-> 0]
    /\ other = NotRunning
    /\ lastCall = NoCall

----------------------------------------------------------------------------
(* Store operations called directly by a client of DiscoveryDB, between    *)
(* passes                                                                  *)

\* the arguments of direct add_primary_source calls: the configured blog's
\* name or another, under either url and either type
PrimaryArgs ==
    [name : {"Primary Blog", "Other Primary"},
     url : {"https://blog.example/feed", "https://moved.example/rss"},
     source_type : {"blog", "twitter"},
     handle : {Null}]

\* DiscoveryDB.add_primary_source(name, url, source_type, handle)
AddPrimarySource(p) ==
    /\ Idle
    /\ (\E i \in DOMAIN primary_sources : primary_sources[i].name = p.name)
           \/ Len(primary_sources) < MaxPrimaries
    /\ primary_sources' = InsertOrIgnorePrimary(primary_sources, p)
    /\ lastCall' = [op |-> "add_primary_source", args |-> p,
                    ret |-> (CHOOSE i \in DOMAIN primary_sources' :
                                primary_sources'[i].name = p.name)]
    /\ UNCHANGED <<discovered_sources, citations, recommendations, config, now,
                   passVars, notifyCount>>

\* DiscoveryDB.add_discovered_source(name, relevance_score=score)
AddDiscoveredSource(name, score) ==
    /\ Idle
    /\ HasName(discovered_sources, name) \/ Len(discovered_sources) < MaxSources
    /\ discovered_sources' =
           InsertOrIgnoreDiscovered(discovered_sources, name, score, now)
    /\ lastCall' = [op |-> "add_discovered_source", name |-> name,
                    ret |-> RowByName(discovered_sources', name).id]
    /\ UNCHANGED <<primary_sources, citations, recommendations, config, now, passVars, notifyCount>>

\* DiscoveryDB.record_citation(primary_source_id, discovered_source_id):
\* both statements commit together
RecordCitation(primary_source_id, discovered_source_id) ==
    /\ Idle
    /\ Len(citations) < MaxCitations
    /\ citations' = InsertCitation(citations, primary_source_id, discovered_source_id)
    /\ discovered_sources' =
           UpdateCitationCount(discovered_sources, citations', discovered_source_id)
    /\ lastCall' = NoCall
    /\ UNCHANGED <<primary_sources, recommendations, config, now, passVars, notifyCount>>

\* DiscoveryDB.mark_recommendation_sent(source_id): both statements commit
\* together; an UPDATE and an INSERT ... SELECT that match no row raise
\* nothing, so the call returns normally whatever the id
MarkRecommendationSent(source_id) ==
    /\ Idle
    /\ Len(recommendations) < MaxRecs
    /\ discovered_sources' = MarkSentRows(discovered_sources, source_id)
    /\ recommendations' =
           InsertRecommendation(recommendations, discovered_sources', source_id)
    /\ lastCall' = [op |-> "mark_recommendation_sent", source_id |-> source_id,
                    raised |-> "none"]
    /\ UNCHANGED <<primary_sources, citations, config, now, passVars, notifyCount>>

\* DiscoveryDB.get_recommended_sources(min_relevance, citation_threshold)
GetRecommendedSources(min_relevance, citation_threshold) ==
    /\ Idle
    /\ lastCall' = [op |-> "get_recommended_sources",
                    min_relevance |-> min_relevance,
                    citation_threshold |-> citation_threshold,
                    ret |-> get_recommended_sources(discovered_sources,
                                min_relevance, citation_threshold)]
    /\ UNCHANGED <<storeVars, config, now, passVars, notifyCount>>

\* The write operations statement by statement.  A statement executed on the
\* connection is part of its open transaction, held here in lastCall.work;
\* the tables of the database file change at conn.commit() only.

\* record_citation: INSERT INTO citations
RecordCitationInsert(primary_source_id, discovered_source_id) ==
    /\ Idle
    /\ Len(citations) < MaxCitations
    /\ lastCall' = [op |-> "record_citation", done |-> 1,
                    id |-> discovered_source_id,
                    work |-> [discovered_sources |-> discovered_sources,
                              citations |-> InsertCitation(citations,
                                  primary_source_id, discovered_source_id),
                              recommendations |-> recommendations]]
    /\ UNCHANGED <<storeVars, config, now, passVars, notifyCount>>

\* record_citation: UPDATE discovered_sources SET citation_count = COUNT
RecordCitationUpdate ==
    /\ pc = "idle"
    /\ lastCall.op = "record_citation"
    /\ lastCall.done = 1
    /\ lastCall' = [lastCall EXCEPT
           !.done = 2,
           !.work.discovered_sources =
               UpdateCitationCount(lastCall.work.discovered_sources,
                                   lastCall.work.citations, lastCall.id)]
    /\ UNCHANGED <<storeVars, config, now, passVars, notifyCount>>

\* mark_recommendation_sent: UPDATE discovered_sources SET recommendation_sent
MarkSentUpdate(source_id) ==
    /\ Idle
    /\ Len(recommendations) < MaxRecs
    /\ lastCall' = [op |-> "mark_recommendation_sent", done |-> 1,
                    id |-> source_id,
                    work |-> [discovered_sources |->
                                  MarkSentRows(discovered_sources, source_id),
                              citations |-> citations,
                              recommendations |-> recommendations]]
    /\ UNCHANGED <<storeVars, config, now, passVars, notifyCount>>

\* mark_recommendation_sent: INSERT INTO recommendations SELECT ...
MarkSentInsert ==
    /\ pc = "idle"
    /\ lastCall.op = "mark_recommendation_sent"
    /\ lastCall.done = 1
    /\ lastCall' = [lastCall EXCEPT
           !.done = 2,
           !.work.recommendations =
               InsertRecommendation(lastCall.work.recommendations,
                                    lastCall.work.discovered_sources, lastCall.id)]
    /\ UNCHANGED <<storeVars, config, now, passVars, notifyCount>>

\* an open transaction: some statements of a write operation are done
InTransaction ==
    /\ lastCall.op \in {"record_citation", "mark_recommendation_sent"}
    /\ "work" \in DOMAIN lastCall

\* conn.commit() after the second statement
Commit ==
    /\ pc = "idle"
    /\ InTransaction
    /\ lastCall.done = 2
    /\ discovered_sources' = lastCall.work.discovered_sources
    /\ citations' = lastCall.work.citations
    /\ recommendations' = lastCall.work.recommendations
    /\ lastCall' = NoCall
    /\ UNCHANGED <<primary_sources, config, now, passVars, notifyCount>>

\* a statement or the commit raises, or the process is killed, after either
\* statement: the with block (or the journal, at the next open) rolls the
\* transaction back
Rollback ==
    /\ pc = "idle"
    /\ InTransaction
    /\ lastCall' = NoCall
    /\ UNCHANGED <<storeVars, config, now, passVars, notifyCount>>

\* the call returns to its caller
Return ==
    /\ pc = "idle"
    /\ lastCall # NoCall
    /\ lastCall' = NoCall
    /\ UNCHANGED <<storeVars, config, now, passVars, notifyCount>>

----------------------------------------------------------------------------
(* Scorer and engine operations called directly, on arguments of the       *)
(* caller's choice                                                         *)

\* relevance scores around the thresholds: 0.3, just under 0.7, 0.7, 1.0
EngineScores == {NoMatchScore, DefaultMinRelevance - 1, DefaultMinRelevance, One}

\* source.get("last_active"): None or "", a string fromisoformat rejects, or
\* a timestamp of day 0 or day 1
LastActives ==
    { [present |-> FALSE, parses |-> FALSE, day |-> 0],
      [present |-> TRUE, parses |-> FALSE, day |-> 0],
      [present |-> TRUE, parses |-> TRUE, day |-> 0],
      [present |-> TRUE, parses |-> TRUE, day |-> 1] }

EngineSources ==
    [relevance_score : EngineScores,
     citation_count : 0..MaxEngineCitations,
     last_active : LastActives]

ThresholdSets == {DefaultThresholds, LenientThresholds}

\* the rows given to rank_sources: scores 0.3, 0.7 and 0.8 with 2 or 3
\* citations, on which the float strengths of the source compare as the
\* integer ones do
RankScores == {NoMatchScore, DefaultMinRelevance, DefaultMinRelevance + 6}
RankCitations == {DefaultCitationThreshold, DefaultCitationThreshold + 1}

\* lists of rows with distinct ids, the ids ascending along the list (the
\* order of the Store) or descending
RankLists ==
    UNION {{[i \in 1..k |->
                [id |-> IF descending THEN k + 1 - i ELSE i,
                 relevance_score |-> a[i].relevance_score,
                 citation_count |-> a[i].citation_count,
                 last_active |-> [present |-> TRUE, parses |-> TRUE, day |-> 0]]] :
              a \in [1..k -> [relevance_score : RankScores,
                              citation_count : RankCitations]],
              descending \in BOOLEAN} :
           k \in 0..MaxRankList}

\* RelevanceScorer(interests).score_name(name)
ScoreName(interests, name) ==
    /\ Idle
    /\ lastCall' = [op |-> "score_name",
                    interests |-> ScorerInterests(interests),
                    name |-> name,
                    ret |-> score_name(ScorerInterests(interests), name)]
    /\ UNCHANGED <<storeVars, config, now, passVars, notifyCount>>

\* RecommendationEngine.should_recommend(source, min_relevance,
\* citation_threshold, max_age_days)
ShouldRecommend(source, t) ==
    /\ Idle
    /\ lastCall' = [op |-> "should_recommend",
                    source |-> source,
                    min_relevance |-> t.min_relevance_score,
                    citation_threshold |-> t.min_citation_count,
                    max_age_days |-> t.max_source_age_days,
                    today |-> now,
                    ret |-> should_recommend(source, t.min_relevance_score,
                                t.min_citation_count, t.max_source_age_days, now)]
    /\ UNCHANGED <<storeVars, config, now, passVars, notifyCount>>

\* RecommendationEngine.rank_sources(sources)
RankSources(sources) ==
    /\ Idle
    /\ lastCall' = [op |-> "rank_sources",
                    sources |-> sources,
                    today |-> now,
                    ret |-> rank_sources(sources, now)]
    /\ UNCHANGED <<storeVars, config, now, passVars, notifyCount>>

----------------------------------------------------------------------------
(* The fetch stage: discover_sources over the configured primary sources   *)

\* what the fetch of one primary source does: it fails inside the fetcher
\* (feedparser.parse or the Twitter client raises), or it yields candidates
FetchOutcomes ==
    {[fails |-> TRUE, found |-> <<>>]}
        \cup {[fails |-> FALSE, found |-> l] : l \in SeqsUpTo(Names, MaxFound)}

\* the configured primary sources with the outcome of each fetch, and what
\* the installation provides: the feedparser and tweepy modules, the
\* TWITTER_BEARER_TOKEN
FetchEnvs ==
    [blogs : SeqsUpTo(FetchOutcomes, MaxBlogs),
     twitter : SeqsUpTo(FetchOutcomes, MaxAccounts),
     feedparser : BOOLEAN,
     tweepy : BOOLEAN,
     token : BOOLEAN]

\* fetch_rss_feed and get_user_timeline catch what the fetch raises and
\* return []: analyze_blog and analyze_user then find nothing
Analyzed(outcome) == IF outcome.fails THEN <<>> ELSE outcome.found

\* all_discovered.extend(sources), over the sources in turn
ExtendAll(outcomes) ==
    LET f[n \in 0..Len(outcomes)] ==
            IF n = 0 THEN <<>> ELSE f[n - 1] \o Analyzed(outcomes[n])
    IN f[Len(outcomes)]

\* discover_sources: fetch_rss_feed raises ImportError without feedparser,
\* before its try; TwitterFetcher() raises ImportError without tweepy and
\* ValueError without a token; only the ValueError is caught, around the
\* whole Twitter section
discover_sources(env) ==
    IF env.blogs # <<>> /\ ~env.feedparser
    THEN [raised |-> "ImportError", all_discovered |-> <<>>]
    ELSE IF env.twitter # <<>> /\ ~env.tweepy
    THEN [raised |-> "ImportError", all_discovered |-> <<>>]
    ELSE [raised |-> "none",
          all_discovered |->
              ExtendAll(env.blogs)
                  \o (IF env.token THEN ExtendAll(env.twitter) ELSE <<>>)]

\* discover_sources(config), in an installation env
DiscoverSources(env) ==
    /\ Idle
    /\ lastCall' = [op |-> "discover_sources", env |-> env,
                    ret |-> discover_sources(env)]
    /\ UNCHANGED <<storeVars, config, now, passVars, notifyCount>>

----------------------------------------------------------------------------
(* The environment: the clock, and a monitor constructed on another        *)
(* configuration over the same database                                    *)

Tick ==
    /\ Idle
    /\ now + DayStep <= MaxTicks * DayStep
    /\ now' = now + DayStep
    /\ lastCall' = NoCall
    /\ UNCHANGED <<storeVars, config, passVars, notifyCount>>

\* AIDiscoveryMonitor.__init__ reads the configuration and loads its primary
\* sources into the database
ReloadConfig ==
    /\ Idle
    /\ \E c \in Configs \ {config} : config' = c
    /\ primary_sources' = init_primary_sources(primary_sources)
    /\ lastCall' = NoCall
    /\ UNCHANGED <<discovered_sources, citations, recommendations, now, passVars,
                   notifyCount>>

----------------------------------------------------------------------------
(* One pass: run_once -> discover_and_score -> notify -> mark              *)

NewNames(cands) ==
    {cands[i] : i \in DOMAIN cands} \
        {discovered_sources[i].name : i \in DOMAIN discovered_sources}

\* a plausible slip: no test of the list, an empty one goes on to the query
StartPassNoShortCircuit(cands) ==
    /\ Idle
    /\ Len(discovered_sources) + Cardinality(NewNames(cands)) <= MaxSources
    /\ pc' = IF cands = <<>> THEN "query" ELSE "scoring"
    /\ discovered' = cands
    /\ idx' = 1
    /\ lastCall' = NoCall
    /\ UNCHANGED <<storeVars, config, now, ranked, markIdx, notifyCount, other>>

\* run_once, up to the return of discover_sources; an empty list makes
\* discover_and_score return [] at once, and run_once ends on the empty result
StartPass(cands) ==
    /\ Idle
    /\ Len(discovered_sources) + Cardinality(NewNames(cands)) <= MaxSources
    /\ IF cands = <<>>
       THEN /\ lastCall' = [op |-> "discover_and_score", discovered |-> cands,
                            ret |-> <<>>]
            /\ UNCHANGED passVars
       ELSE /\ pc' = "scoring"
            /\ discovered' = cands
            /\ idx' = 1
            /\ lastCall' = NoCall
            /\ UNCHANGED <<ranked, markIdx>>
    /\ UNCHANGED <<storeVars, config, now, notifyCount, other>>

\* discover_and_score, one iteration of  for source in discovered
ScoreCandidate ==
    /\ pc = "scoring"
    /\ LET name == discovered[idx]
           existing == HasName(discovered_sources, name)
           relevance_score ==
               score_name(ScorerInterests(config.interests), name)
       IN IF existing
          THEN /\ UNCHANGED discovered_sources
               /\ lastCall' = NoCall
          ELSE /\ discovered_sources' =
                      InsertOrIgnoreDiscovered(discovered_sources, name,
                                               relevance_score, now)
               /\ lastCall' = [op |-> "add_discovered_source", name |-> name,
                               ret |-> RowByName(discovered_sources', name).id]
    /\ idx' = idx + 1
    /\ pc' = IF idx = Len(discovered) THEN "query" ELSE "scoring"
    /\ UNCHANGED <<primary_sources, citations, recommendations, config, now, discovered, ranked,
                   markIdx, notifyCount, other>>

\* discover_and_score from the thresholds on, and run_once's test of the result
QueryAndRank ==
    /\ pc = "query"
    /\ LET min_relevance == config.thresholds.min_relevance_score
           citation_threshold == config.thresholds.min_citation_count
           candidates == get_recommended_sources(discovered_sources,
                                                 min_relevance, citation_threshold)
           result == IF candidates = <<>> THEN <<>>
                     ELSE rank_sources(candidates, now)
       IN /\ ranked' = result
          /\ pc' = IF result = <<>> THEN "idle" ELSE "notify"
          /\ lastCall' = [op |-> "get_recommended_sources",
                          min_relevance |-> min_relevance,
                          citation_threshold |-> citation_threshold,
                          ret |-> candidates]
    /\ discovered' = <<>>
    /\ idx' = 1
    /\ UNCHANGED <<storeVars, config, now, markIdx, notifyCount, other>>

\* what run_once leaves to its caller after a Store operation raised: the
\* except clause prints the error and run_once returns normally
SwallowedStoreError ==
    [op |-> "run_once", store_error |-> TRUE, raised |-> FALSE]

\* discover_and_score: a Store operation (get_source_by_name,
\* add_discovered_source, get_recommended_sources) raises sqlite3.Error; its
\* transaction is rolled back and the except clause of run_once ends the pass
StoreFails ==
    /\ pc \in {"scoring", "query"}
    /\ pc' = "idle"
    /\ discovered' = <<>>
    /\ idx' = 1
    /\ lastCall' = SwallowedStoreError
    /\ UNCHANGED <<storeVars, config, now, ranked, markIdx, notifyCount, other>>

\* the ids of the sources in the list handed to notify
RankedIds == {ranked[i].source.id : i \in DOMAIN ranked}

Handed == [i \in SourceIds |->
              IF i \in RankedIds THEN Min(notifyCount[i] + 1, 2)
              ELSE notifyCount[i]]

\* run_once: notification_handler.notify(recommendations) returns
Notify ==
    /\ pc = "notify"
    /\ notifyCount' = Handed
    /\ pc' = "marking"
    /\ markIdx' = 1
    /\ lastCall' = NoCall
    /\ UNCHANGED <<storeVars, config, now, discovered, idx, ranked, other>>

\* run_once: notify raises (the write of the output file fails); the except
\* clause of run_once ends the pass
NotifyFails ==
    /\ pc = "notify"
    /\ notifyCount' = Handed
    /\ pc' = "idle"
    /\ ranked' = <<>>
    /\ lastCall' = NoCall
    /\ UNCHANGED <<storeVars, config, now, discovered, idx, markIdx, other>>

\* a plausible slip: the position in the list taken for the source's id
MarkNextByPosition ==
    /\ pc = "marking"
    /\ LET source_id == markIdx
       IN /\ discovered_sources' = MarkSentRows(discovered_sources, source_id)
          /\ recommendations' =
                 InsertRecommendation(recommendations, discovered_sources',
                                      source_id)
    /\ lastCall' = NoCall
    /\ IF markIdx = Len(ranked)
       THEN /\ pc' = "idle"
            /\ ranked' = <<>>
            /\ markIdx' = 1
       ELSE /\ markIdx' = markIdx + 1
            /\ UNCHANGED <<pc, ranked>>
    /\ UNCHANGED <<primary_sources, citations, config, now, discovered, idx, notifyCount, other>>

\* run_once: one iteration of the loop over recommendations
MarkNext ==
    /\ pc = "marking"
    /\ LET source_id == ranked[markIdx].source.id
       IN /\ discovered_sources' = MarkSentRows(discovered_sources, source_id)
          /\ recommendations' =
                 InsertRecommendation(recommendations, discovered_sources',
                                      source_id)
    /\ lastCall' = NoCall
    /\ IF markIdx = Len(ranked)
       THEN /\ pc' = "idle"
            /\ ranked' = <<>>
            /\ markIdx' = 1
       ELSE /\ markIdx' = markIdx + 1
            /\ UNCHANGED <<pc, ranked>>
    /\ UNCHANGED <<primary_sources, citations, config, now, discovered, idx, notifyCount, other>>

\* run_once: mark_recommendation_sent raises (sqlite3 error, rolled back); the
\* except clause of run_once ends the pass
MarkFails ==
    /\ pc = "marking"
    /\ pc' = "idle"
    /\ ranked' = <<>>
    /\ markIdx' = 1
    /\ lastCall' = SwallowedStoreError
    /\ UNCHANGED <<storeVars, config, now, discovered, idx, notifyCount, other>>

----------------------------------------------------------------------------
(* A second run_once on the same database, in another process, without    *)
(* failures.  Each of its Store operations is one step, taken between the  *)
(* steps of the first: every operation opens its own connection and its    *)
(* own transaction, and nothing else is locked.  Its candidates are names  *)
(* the Store holds, so its scoring loop only reads.                        *)

otherFrame == <<primary_sources, citations, config, now, pc, discovered, idx,
                ranked, markIdx, lastCall>>

\* run_once, up to the return of discover_sources
OtherStartPass(cands) ==
    /\ other.pc = "idle"
    /\ cands # <<>>
    /\ NewNames(cands) = {}
    /\ other' = [other EXCEPT !.pc = "scoring", !.discovered = cands, !.idx = 1]
    /\ UNCHANGED <<otherFrame, discovered_sources, recommendations, notifyCount>>

\* discover_and_score, one iteration of the loop: get_source_by_name finds
\* the row, and nothing is written
OtherScoreCandidate ==
    /\ other.pc = "scoring"
    /\ HasName(discovered_sources, other.discovered[other.idx])
    /\ other' = [other EXCEPT
           !.idx = other.idx + 1,
           !.pc = IF other.idx = Len(other.discovered) THEN "query" ELSE "scoring"]
    /\ UNCHANGED <<otherFrame, discovered_sources, recommendations, notifyCount>>

\* discover_and_score from the thresholds on, and run_once's test of the result
OtherQueryAndRank ==
    /\ other.pc = "query"
    /\ LET candidates == get_recommended_sources(discovered_sources,
                              config.thresholds.min_relevance_score,
                              config.thresholds.min_citation_count)
           result == IF candidates = <<>> THEN <<>>
                     ELSE rank_sources(candidates, now)
       IN other' = [other EXCEPT
              !.ranked = result,
              !.pc = IF result = <<>> THEN "idle" ELSE "notify",
              !.discovered = <<>>,
              !.idx = 1]
    /\ UNCHANGED <<otherFrame, discovered_sources, recommendations, notifyCount>>

\* run_once: notification_handler.notify(recommendations) returns
OtherNotify ==
    /\ other.pc = "notify"
    /\ notifyCount' =
           [i \in SourceIds |->
               IF \E k \in DOMAIN other.ranked : other.ranked[k].source.id = i
               THEN Min(notifyCount[i] + 1, 2)
               ELSE notifyCount[i]]
    /\ other' = [other EXCEPT !.pc = "marking", !.markIdx = 1]
    /\ UNCHANGED <<otherFrame, discovered_sources, recommendations>>

\* run_once: one iteration of the loop over recommendations
OtherMarkNext ==
    /\ other.pc = "marking"
    /\ LET source_id == other.ranked[other.markIdx].source.id
       IN /\ discovered_sources' = MarkSentRows(discovered_sources, source_id)
          /\ recommendations' =
                 InsertRecommendation(recommendations, discovered_sources',
                                      source_id)
    /\ other' = IF other.markIdx = Len(other.ranked)
                THEN NotRunning
                ELSE [other EXCEPT !.markIdx = other.markIdx + 1]
    /\ UNCHANGED <<otherFrame, notifyCount>>

OtherPass ==
    \/ \E cands \in SeqsUpTo(Names, MaxCandidates) : OtherStartPass(cands)
    \/ OtherScoreCandidate
    \/ OtherQueryAndRank
    \/ OtherNotify
    \/ OtherMarkNext

----------------------------------------------------------------------------
(* Specifications *)

Pass ==
    \/ \E cands \in SeqsUpTo(Names, MaxCandidates) : StartPass(cands)
    \/ ScoreCandidate
    \/ QueryAndRank
    \/ StoreFails
    \/ Notify
    \/ NotifyFails
    \/ MarkNext
    \/ MarkFails

\* passes, with citations recorded between them by a client of the Store
NextPasses ==
    \/ Pass
    \/ \E p \in PrimaryIds, d \in SourceIds : RecordCitation(p, d)
    \/ Tick
    \/ ReloadConfig
    \/ Return

Next ==
    \/ Pass
    \/ \E p \in PrimaryIds, d \in SourceIds : RecordCitation(p, d)
    \/ Tick
    \/ ReloadConfig
    \/ Return
    \/ \E n \in Names, sc \in ScoreInputs : AddDiscoveredSource(n, sc)
    \/ \E d \in SourceIds : MarkRecommendationSent(d)
    \/ \E mr \in RelevanceArgs, ct \in CitationArgs : GetRecommendedSources(mr, ct)

\* the Store alone, used by a client that calls its operations in any order;
\* the configuration of the monitor plays no part in it
NextStore ==
    \/ \E n \in Names, sc \in ScoreInputs : AddDiscoveredSource(n, sc)
    \/ \E p \in PrimaryIds, d \in SourceIds : RecordCitation(p, d)
    \/ \E d \in SourceIds : MarkRecommendationSent(d)
    \/ \E mr \in RelevanceArgs, ct \in CitationArgs : GetRecommendedSources(mr, ct)
    \/ Return

InitStore ==
    /\ Init
    /\ config = [interests |-> <<Agents, Safety>>, thresholds |-> DefaultThresholds]

\* the scorer and the engine alone: pure functions of their arguments and of
\* the clock
NextEngine ==
    \/ \E interests \in SeqsUpTo(Terms, MaxTerms), name \in Names \cup {<<>>} :
          ScoreName(interests, name)
    \/ \E source \in EngineSources, t \in ThresholdSets : ShouldRecommend(source, t)
    \/ \E sources \in RankLists : RankSources(sources)
    \/ Tick
    \/ Return

\* the fetch stage alone
NextFetch ==
    \/ \E env \in FetchEnvs : DiscoverSources(env)
    \/ Return

\* passes and reconstructions of the monitor, with primary sources added
\* between them by a client of the Store
NextPrimary ==
    \/ NextPasses
    \/ \E p \in PrimaryArgs : AddPrimarySource(p)

\* the Store with its write operations taken statement by statement, any of
\* which can fail
NextTxn ==
    \/ \E n \in Names, sc \in ScoreInputs : AddDiscoveredSource(n, sc)
    \/ \E p \in PrimaryIds, d \in SourceIds : RecordCitationInsert(p, d)
    \/ RecordCitationUpdate
    \/ \E d \in SourceIds : MarkSentUpdate(d)
    \/ MarkSentInsert
    \/ Commit
    \/ Rollback
    \/ Return

\* the steps of a pass in which nothing fails
PassNoFailure ==
    \/ \E cands \in SeqsUpTo(Names, MaxCandidates) : StartPass(cands)
    \/ ScoreCandidate
    \/ QueryAndRank
    \/ Notify
    \/ MarkNext

\* passes without failures under one configuration (the default thresholds)
\* and within one day, so that no source ages; citations can be recorded
\* between passes by a client of the Store
NextLive ==
    \/ PassNoFailure
    \/ \E p \in PrimaryIds, d \in SourceIds : RecordCitation(p, d)
    \/ Return

\* run_once runs to its end once started, and the monitor is run again and
\* again (by hand or from a scheduler) on primary sources that keep citing
\* each name; nothing obliges a client to record citations
Fairness ==
    /\ WF_vars(ScoreCandidate \/ QueryAndRank \/ Notify \/ MarkNext \/ Return)
    /\ \A n \in Names : SF_vars(StartPass(<<n>>))

\* two run_once executions on one database, nothing failing, with citations
\* recorded by a client of the Store between the passes of the first
NextTwo ==
    \/ PassNoFailure
    \/ OtherPass
    \/ \E p \in PrimaryIds, d \in SourceIds : RecordCitation(p, d)
    \/ Return

Spec == Init /\ [][Next]_vars

SpecTwo == InitStore /\ [][NextTwo]_vars

SpecLive == InitStore /\ [][NextLive]_vars /\ Fairness

SpecTxn == InitStore /\ [][NextTxn]_vars

SpecPrimary == Init /\ [][NextPrimary]_vars

SpecFetch == InitStore /\ [][NextFetch]_vars

SpecEngine == InitStore /\ [][NextEngine]_vars

SpecStore == InitStore /\ [][NextStore]_vars

SpecPasses == Init /\ [][NextPasses]_vars

----------------------------------------------------------------------------
(* Claims *)

ConfiguredInterests == ScorerInterests(config.interests)

RecordsOf(source_id) ==
    {k \in DOMAIN recommendations : recommendations[k].source_id = source_id}

\* C1: over any sequence of passes, failing ones included, a discovered source
\* is in the list handed to notify in at most one pass.
C1_NotifiedInAtMostOnePass == \A i \in SourceIds : notifyCount[i] <= 1

\* C2: once a source's recommendation_sent is true, no step (a Store operation
\* or a step of a pass) leaves the source with the flag false.
C2_SentFlagMonotonic ==
    [][\A i \in DOMAIN discovered_sources :
          discovered_sources[i].recommendation_sent
              => /\ i \in DOMAIN discovered_sources'
                 /\ discovered_sources'[i].name = discovered_sources[i].name
                 /\ discovered_sources'[i].recommendation_sent]_vars

\* a sent source on which add_discovered_source was called again with its name,
\* after a citation of it was recorded
C2_Witness ==
    /\ lastCall.op = "add_discovered_source"
    /\ \E i \in DOMAIN discovered_sources :
          /\ discovered_sources[i].name = lastCall.name
          /\ discovered_sources[i].recommendation_sent
          /\ discovered_sources[i].citation_count > 0
          /\ RecordsOf(i) # {}

\* C3: in every reachable state each discovered source's citation_count is the
\* number of citations rows whose discovered_source_id is the source's id.
C3_CitationCountMatchesEdges ==
    \A i \in DOMAIN discovered_sources :
        discovered_sources[i].citation_count =
            Cardinality({k \in DOMAIN citations :
                citations[k].discovered_source_id = discovered_sources[i].id})

\* C4: processing a candidate in a pass appends one citation edge, and the
\* persisted citation_count of the candidate's source rises by one (to 1 on
\* the first sighting).
C4_CitationPerSighting ==
    [][pc = "scoring" =>
          LET name == discovered[idx]
              before == IF HasName(discovered_sources, name)
                        THEN RowByName(discovered_sources, name).citation_count
                        ELSE 0
          IN /\ Len(citations') = Len(citations) + 1
             /\ RowByName(discovered_sources', name).citation_count = before + 1]_vars

\* C5: add_discovered_source with a name that exists leaves the table as it
\* was (no second row, no field changed) and returns the existing row's id;
\* names stay unique; citation_count changes only in a step that appends a
\* citation of that source (record_citation).
C5_AddExistingIsNoOp ==
    [][/\ (lastCall'.op = "add_discovered_source"
              /\ HasName(discovered_sources, lastCall'.name))
          => /\ discovered_sources' = discovered_sources
             /\ lastCall'.ret = RowByName(discovered_sources, lastCall'.name).id
       /\ \A i, j \in DOMAIN discovered_sources' :
             discovered_sources'[i].name = discovered_sources'[j].name => i = j
       /\ \A i \in DOMAIN discovered_sources :
             (i \in DOMAIN discovered_sources'
                 /\ discovered_sources'[i].citation_count
                        # discovered_sources[i].citation_count)
             => /\ Len(citations') = Len(citations) + 1
                /\ citations'[Len(citations')].discovered_source_id
                       = discovered_sources[i].id]_vars

\* add_discovered_source has just been called with the name of a row that
\* already carried citations and the sent flag
C5_Witness ==
    /\ lastCall.op = "add_discovered_source"
    /\ pc = "idle"
    /\ \E i \in DOMAIN discovered_sources :
          /\ discovered_sources[i].name = lastCall.name
          /\ lastCall.ret = i
          /\ discovered_sources[i].citation_count > 0
          /\ discovered_sources[i].recommendation_sent

\* C6: a candidate returned by get_recommended_sources is in the ranked output
\* of the pass if and only if should_recommend with the configured thresholds
\* accepts it.
C6_ConfiguredThresholdsDecide ==
    [][pc = "query" =>
          LET t == config.thresholds
              candidates == get_recommended_sources(discovered_sources,
                                t.min_relevance_score, t.min_citation_count)
          IN \A k \in DOMAIN candidates :
                (\E j \in DOMAIN ranked' : ranked'[j].source = candidates[k])
                <=> should_recommend(candidates[k], t.min_relevance_score,
                        t.min_citation_count, t.max_source_age_days, now).accept]_vars

\* C7: when a stored source is sighted again and the newly computed score is
\* higher than the stored one, the persisted relevance_score becomes the
\* maximum of the two.
C7_ResightingPersistsMax ==
    [][pc = "scoring" =>
          LET name == discovered[idx]
              new == score_name(ConfiguredInterests, name)
          IN (HasName(discovered_sources, name)
                 /\ new > RowByName(discovered_sources, name).relevance_score)
             => RowByName(discovered_sources', name).relevance_score
                    = Max(RowByName(discovered_sources, name).relevance_score, new)]_vars

\* C8: the persisted relevance_score of a discovered source never decreases,
\* in any step of a pass or Store operation.
C8_ScoreNeverDecreases ==
    [][\A i \in DOMAIN discovered_sources :
          /\ i \in DOMAIN discovered_sources'
          /\ discovered_sources'[i].relevance_score
                 >= discovered_sources[i].relevance_score]_vars

\* a pass has just sighted a stored source again and computed a score below
\* the stored one
C8_Witness ==
    /\ pc \in {"scoring", "query"}
    /\ idx > 1
    /\ HasName(discovered_sources, discovered[idx - 1])
    /\ score_name(ConfiguredInterests, discovered[idx - 1])
           < RowByName(discovered_sources, discovered[idx - 1]).relevance_score

\* C9: in every state reached through passes each discovered source has at
\* most one Recommendation record, and its recommendation_sent is true exactly
\* when it has one.
C9_OneRecordIffSent ==
    \A i \in DOMAIN discovered_sources :
        LET n == Cardinality(RecordsOf(discovered_sources[i].id))
        IN /\ n <= 1
           /\ discovered_sources[i].recommendation_sent <=> (n = 1)

\* a pass has notified and marked a source, and another source is not sent
C9_Witness ==
    /\ pc = "idle"
    /\ \E i, j \in DOMAIN discovered_sources :
          /\ discovered_sources[i].recommendation_sent
          /\ notifyCount[i] = 1
          /\ ~discovered_sources[j].recommendation_sent

\* C10: get_recommended_sources returns exactly the rows with relevance_score
\* >= min_relevance, citation_count >= citation_threshold and the sent flag
\* false, each once, by relevance_score descending, then citation_count
\* descending, then in insertion order.
C10_QueryResult ==
    lastCall.op = "get_recommended_sources" =>
        LET ret == lastCall.ret
        IN /\ \A i \in DOMAIN discovered_sources :
                  (\E k \in DOMAIN ret : ret[k] = discovered_sources[i])
                  <=> /\ discovered_sources[i].relevance_score >= lastCall.min_relevance
                      /\ discovered_sources[i].citation_count
                             >= lastCall.citation_threshold
                      /\ ~discovered_sources[i].recommendation_sent
           /\ \A k \in DOMAIN ret :
                  \E i \in DOMAIN discovered_sources : ret[k] = discovered_sources[i]
           /\ \A k, l \in DOMAIN ret :
                  k < l =>
                     \/ ret[k].relevance_score > ret[l].relevance_score
                     \/ /\ ret[k].relevance_score = ret[l].relevance_score
                        /\ ret[k].citation_count > ret[l].citation_count
                     \/ /\ ret[k].relevance_score = ret[l].relevance_score
                        /\ ret[k].citation_count = ret[l].citation_count
                        /\ ret[k].id < ret[l].id

\* a query that returned two rows in another order than they were inserted
C10_Witness ==
    /\ lastCall.op = "get_recommended_sources"
    /\ Len(lastCall.ret) >= 2
    /\ lastCall.ret[1].id > lastCall.ret[2].id

\* C11: mark_recommendation_sent called with an id that is not in
\* discovered_sources fails with a NotFound error and leaves
\* discovered_sources and recommendations as they were.
C11_UnknownIdFailsNotFound ==
    [][(lastCall'.op = "mark_recommendation_sent"
           /\ ~\E i \in DOMAIN discovered_sources :
                 discovered_sources[i].id = lastCall'.source_id)
          => /\ lastCall'.raised = "NotFound"
             /\ discovered_sources' = discovered_sources
             /\ recommendations' = recommendations]_vars

\* C12: mark_recommendation_sent on an existing id leaves the flag true (also
\* when it was true already) and appends exactly one Recommendation record
\* carrying the source's stored relevance_score, so k calls leave k records.
C12_EachMarkAppendsOneRecord ==
    [][(lastCall'.op = "mark_recommendation_sent"
           /\ lastCall'.source_id \in DOMAIN discovered_sources)
          => LET source_id == lastCall'.source_id
             IN /\ discovered_sources' =
                       [discovered_sources EXCEPT
                           ![source_id].recommendation_sent = TRUE]
                /\ recommendations' =
                       Append(recommendations,
                              [source_id |-> source_id,
                               relevance_score |->
                                   discovered_sources[source_id].relevance_score])]_vars

\* the second call on a source: two records for it, both with its score
C12_Witness ==
    /\ lastCall.op = "mark_recommendation_sent"
    /\ lastCall.source_id \in DOMAIN discovered_sources
    /\ Cardinality(RecordsOf(lastCall.source_id)) = 2
    /\ \A k \in RecordsOf(lastCall.source_id) :
          recommendations[k].relevance_score
              = discovered_sources[lastCall.source_id].relevance_score

\* C13: should_recommend rejects with the relevance reason when
\* relevance_score < min_relevance, even if the citations are short too;
\* otherwise it rejects with "Not enough citations: c < t" when citation_count
\* < citation_threshold; a source exactly on both thresholds passes both
\* checks.
C13_ChecksInOrder ==
    lastCall.op = "should_recommend" =>
        LET src == lastCall.source
            ret == lastCall.ret
        IN /\ src.relevance_score < lastCall.min_relevance
                  => /\ ~ret.accept
                     /\ ret.reason = [text |-> "Relevance score too low",
                                      a |-> src.relevance_score,
                                      b |-> lastCall.min_relevance]
           /\ (src.relevance_score >= lastCall.min_relevance
                   /\ src.citation_count < lastCall.citation_threshold)
                  => /\ ~ret.accept
                     /\ ret.reason = [text |-> "Not enough citations",
                                      a |-> src.citation_count,
                                      b |-> lastCall.citation_threshold]
           /\ (src.relevance_score = lastCall.min_relevance
                   /\ src.citation_count = lastCall.citation_threshold)
                  => ret.reason.text \notin {"Relevance score too low",
                                             "Not enough citations"}

\* a source short on both counts was rejected for its relevance
C13_Witness ==
    /\ lastCall.op = "should_recommend"
    /\ lastCall.source.relevance_score = lastCall.min_relevance - 1
    /\ lastCall.source.citation_count < lastCall.citation_threshold
    /\ ~lastCall.ret.accept

\* C14: a source that passes the relevance and citation checks is rejected
\* only when last_active is present, parses and is more than max_age_days
\* old; with last_active absent or unparsable it is accepted, and the reason
\* then names relevance and citation count only.
C14_OnlyDatedSourcesAgeOut ==
    (lastCall.op = "should_recommend"
        /\ lastCall.source.relevance_score >= lastCall.min_relevance
        /\ lastCall.source.citation_count >= lastCall.citation_threshold) =>
        LET la == lastCall.source.last_active
            ret == lastCall.ret
        IN /\ ~ret.accept <=> (/\ la.present
                               /\ la.parses
                               /\ lastCall.today - la.day > lastCall.max_age_days)
           /\ (~la.present \/ ~la.parses)
                  => /\ ret.accept
                     /\ ret.reason.text = "Good relevance | Cited"

\* a source whose last_active does not parse was accepted after the clock
\* had advanced by more than max_age_days
C14_Witness ==
    /\ lastCall.op = "should_recommend"
    /\ lastCall.source.last_active.present
    /\ ~lastCall.source.last_active.parses
    /\ lastCall.today > lastCall.max_age_days
    /\ lastCall.ret.accept

\* C15: rank_sources returns the accepted sources of its input, each once, by
\* strength 0.5 * relevance_score + 0.5 * (citation_count / 10) descending,
\* and two of equal strength in the order they had in the input.
C15_RankedByStrengthStable ==
    lastCall.op = "rank_sources" =>
        LET sources == lastCall.sources
            ret == lastCall.ret
            Pos(src) == CHOOSE i \in DOMAIN sources : sources[i] = src
            S(src) == src.relevance_score * CitationNorm + src.citation_count * One
        IN /\ \A i \in DOMAIN sources :
                  Cardinality({k \in DOMAIN ret : ret[k].source = sources[i]})
                      = IF RankDecision(sources[i], lastCall.today).accept
                        THEN 1 ELSE 0
           /\ \A k \in DOMAIN ret :
                  \E i \in DOMAIN sources : ret[k].source = sources[i]
           /\ \A k, l \in DOMAIN ret :
                  k < l => \/ S(ret[k].source) > S(ret[l].source)
                           \/ /\ S(ret[k].source) = S(ret[l].source)
                              /\ Pos(ret[k].source) < Pos(ret[l].source)

\* two sources of equal strength and different scores came out in input
\* order, after a stronger one that was behind them in the input
C15_Witness ==
    /\ lastCall.op = "rank_sources"
    /\ Len(lastCall.ret) = 3
    /\ lastCall.ret[1].source = lastCall.sources[3]
    /\ lastCall.ret[2].source = lastCall.sources[1]
    /\ lastCall.ret[2].source.relevance_score
           # lastCall.ret[3].source.relevance_score
    /\ Strength(lastCall.ret[2].source) = Strength(lastCall.ret[3].source)

\* the terms of a vocabulary that occur in the lowercased name
MatchedTerms(interests, name) ==
    {k \in DOMAIN interests : IsSubstring(interests[k], Lower(name))}

\* C19: score_name of a non-empty name is (terms matched) / |vocabulary| when
\* a term matches, 0.3 when the vocabulary is non-empty and none matches, and
\* 0.5 when the vocabulary is empty; it is always in [0, 1].
C19_ScoreNameValue ==
    (lastCall.op = "score_name" /\ lastCall.name # <<>>) =>
        LET interests == lastCall.interests
            n == Cardinality(MatchedTerms(interests, lastCall.name))
        IN /\ lastCall.ret >= 0
           /\ lastCall.ret <= One
           /\ IF interests = <<>> THEN 2 * lastCall.ret = One
              ELSE IF n > 0 THEN lastCall.ret * Len(interests) = n * One
              ELSE lastCall.ret = NoMatchScore

\* the call score_name("AI Safety Weekly") on the vocabulary
\* ["agents", "safety"]
ScenarioACall ==
    /\ lastCall.op = "score_name"
    /\ lastCall.interests = ScorerInterests(<<Agents, Safety>>)
    /\ lastCall.name = AISafetyWeekly

\* C20 as stated: with vocabulary ["agents", "safety"],
\* score_name("AI Safety Weekly") is 1.0, both terms counting as matched.
C20_BothTermsMatch ==
    ScenarioACall =>
        /\ lastCall.ret = One
        /\ Cardinality(MatchedTerms(lastCall.interests, lastCall.name)) = 2

\* C20: with vocabulary ["agents", "safety"], score_name("AI Safety Weekly")
\* is 0.5: "safety" is the one term of the two that occurs in the name.
C20_OneTermOfTwoMatches ==
    ScenarioACall =>
        /\ 2 * lastCall.ret = One
        /\ MatchedTerms(lastCall.interests, lastCall.name) = {2}

\* the call of the scenario has returned a score above the no-match one
C20_Witness == ScenarioACall /\ lastCall.ret > NoMatchScore

\* C16: a pass whose fetch stage yields no candidate returns an empty result
\* and makes no call on the Store: every table is as it was before the pass.
C16_EmptyPassLeavesStore ==
    [][/\ (lastCall'.op = "discover_and_score" /\ lastCall'.discovered = <<>>)
          => /\ lastCall'.ret = <<>>
             /\ pc' = "idle"
             /\ discovered_sources' = discovered_sources
             /\ citations' = citations
             /\ recommendations' = recommendations
       /\ (pc = "idle" /\ pc' \in {"scoring", "query"}) => discovered' # <<>>]_vars

\* an empty pass has just ended on a store holding a row the query of a pass
\* would have returned
C16_Witness ==
    /\ lastCall.op = "discover_and_score"
    /\ lastCall.discovered = <<>>
    /\ get_recommended_sources(discovered_sources,
                               config.thresholds.min_relevance_score,
                               config.thresholds.min_citation_count) # <<>>

\* the primary sources of env whose fetch fails: the module or the token the
\* fetcher needs is missing, or the fetch itself raises
BlogFails(env, i) == ~env.feedparser \/ env.blogs[i].fails
AccountFails(env, j) == ~env.tweepy \/ ~env.token \/ env.twitter[j].fails

\* the candidates of the sources in outcomes whose fetch does not fail
FoundByOthers(outcomes, fails) ==
    LET f[n \in 0..Len(outcomes)] ==
            IF n = 0 THEN <<>>
            ELSE f[n - 1] \o (IF fails[n] THEN <<>> ELSE outcomes[n].found)
    IN f[Len(outcomes)]

\* C17: when the fetch of a primary source fails, the fetch stage still ends
\* normally, the failing source contributes no candidate and the candidates
\* of every other primary source are in the list handed on to the pass.
C17_FetchFailureIsolated ==
    lastCall.op = "discover_sources" =>
        LET env == lastCall.env
            bf == [i \in DOMAIN env.blogs |-> BlogFails(env, i)]
            af == [j \in DOMAIN env.twitter |-> AccountFails(env, j)]
        IN ((\E i \in DOMAIN bf : bf[i]) \/ (\E j \in DOMAIN af : af[j]))
           => /\ lastCall.ret.raised = "none"
              /\ lastCall.ret.all_discovered =
                     FoundByOthers(env.blogs, bf) \o FoundByOthers(env.twitter, af)

\* C18: a failure raised by a Store operation during a pass reaches the
\* caller of run_once as an error.
C18_StoreFailurePropagates ==
    (lastCall.op = "run_once" /\ lastCall.store_error) => lastCall.raised

\* C21: add_primary_source with a name that exists inserts nothing, returns
\* the existing row's id and leaves url, source_type and handle as they were;
\* no step deletes a primary_sources row or changes a field of it other than
\* last_checked.
C21_PrimaryKeepFirst ==
    [][/\ (lastCall'.op = "add_primary_source"
              /\ \E i \in DOMAIN primary_sources :
                    primary_sources[i].name = lastCall'.args.name)
          => /\ Len(primary_sources') = Len(primary_sources)
             /\ primary_sources[lastCall'.ret].name = lastCall'.args.name
       /\ \A i \in DOMAIN primary_sources :
             /\ i \in DOMAIN primary_sources'
             /\ [primary_sources'[i] EXCEPT !.last_checked = Null]
                    = [primary_sources[i] EXCEPT !.last_checked = Null]]_vars

\* add_primary_source has just been called with the name of a stored row and
\* another url and type, after a pass had marked a source sent
C21_Witness ==
    /\ lastCall.op = "add_primary_source"
    /\ primary_sources[lastCall.ret].url # lastCall.args.url
    /\ primary_sources[lastCall.ret].source_type # lastCall.args.source_type
    /\ recommendations # <<>>

\* names are unique in discovered_sources
NamesUnique ==
    \A i, j \in DOMAIN discovered_sources :
        discovered_sources[i].name = discovered_sources[j].name => i = j

\* recommendation_sent is true exactly for the sources with a record
SentIffRecorded ==
    \A i \in DOMAIN discovered_sources :
        discovered_sources[i].recommendation_sent
            <=> RecordsOf(discovered_sources[i].id) # {}

\* C22: whatever statement of a Store operation fails, the persisted tables
\* have unique names, each citation_count equal to the number of citation
\* edges of its source, and recommendation_sent true iff a Recommendation
\* record exists.
C22_FailuresKeepStoreConsistent ==
    /\ NamesUnique
    /\ \A i \in DOMAIN discovered_sources :
          discovered_sources[i].citation_count =
              Cardinality({k \in DOMAIN citations :
                  citations[k].discovered_source_id = discovered_sources[i].id})
    /\ SentIffRecorded

\* the rows whose recommendation_sent differs between two tables
FlagChanged(before, after) ==
    {i \in DOMAIN before : i \in DOMAIN after
        /\ after[i].recommendation_sent # before[i].recommendation_sent}

Resighted(name) ==
    /\ pc \in {"scoring", "query"}
    /\ idx > 1
    /\ discovered[idx - 1] = name
    /\ lastCall = NoCall

\* the source of that name has been handed to notify and is marked sent
NotifiedAndSent(name) ==
    \E i \in DOMAIN discovered_sources :
        /\ discovered_sources[i].name = name
        /\ discovered_sources[i].recommendation_sent
        /\ notifyCount[i] >= 1

\* C24: with the default thresholds and no failures, a source whose
\* name-based score is at least 0.7 and that has been sighted in the
\* candidates a second time is eventually handed to notify and marked sent.
C24_ResightedEventuallySent ==
    \A name \in Names :
        (Resighted(name) /\ score_name(ConfiguredInterests, name) >= DefaultMinRelevance)
            ~> NotifiedAndSent(name)

\* C25: when two run_once executions on one database interleave their Store
\* operations, no discovered source is handed to notify by both and no
\* source ends with more than one Recommendation record.
C25_InterleavedPassesNotifyOnce ==
    \A i \in SourceIds :
        /\ notifyCount[i] <= 1
        /\ Cardinality(RecordsOf(i)) <= 1

\* C26: the persisted last_active of a discovered source is set when its row is
\* inserted, to the time of the insertion and not to the candidate's own
\* last_active, and no later step changes it; the freshness test that a pass
\* applies to a stored row therefore measures the days since its insertion.
C26_LastActiveSetOnceAtInsertion ==
    [][/\ \A i \in DOMAIN discovered_sources :
            /\ i \in DOMAIN discovered_sources'
            /\ discovered_sources'[i].last_active
                   = discovered_sources[i].last_active
       /\ \A i \in DOMAIN discovered_sources' \ DOMAIN discovered_sources :
            discovered_sources'[i].last_active
                = [present |-> TRUE, parses |-> TRUE, day |-> now]
       /\ (pc = "query" /\ lastCall'.op = "get_recommended_sources")
           => \A k \in DOMAIN lastCall'.ret :
                 LET row == lastCall'.ret[k]
                 IN (row.id \in {ranked'[j].source.id : j \in DOMAIN ranked'})
                    <=> /\ row.relevance_score >= DefaultMinRelevance
                        /\ row.citation_count >= DefaultCitationThreshold
                        /\ now - row.last_active.day <= DefaultMaxAgeDays]_vars

\* a pass on a later day has sighted again a source inserted on day 0; the
\* source is eligible, and its last_active is still day 0, now too old
C26_Witness ==
    /\ pc = "query"
    /\ now > DefaultMaxAgeDays
    /\ \E i \in DOMAIN discovered_sources :
          /\ \E k \in DOMAIN discovered : discovered[k] = discovered_sources[i].name
          /\ discovered_sources[i].last_active.day = 0
          /\ discovered_sources[i].relevance_score >= DefaultMinRelevance
          /\ discovered_sources[i].citation_count >= DefaultCitationThreshold
          /\ ~discovered_sources[i].recommendation_sent

====
